---- MODULE Spec2Model ----
(***************************************************************************)
(* Rackspace Managed Kubernetes Auth authenticator for Harbor              *)
(* (src/src/ui/auth/rackspace/rackspace.go).                               *)
(*                                                                         *)
(* Auth.Authenticate is modelled as a sequence of steps, one per           *)
(* interaction with state shared between goroutines: the package variable  *)
(* authServerURLTokenEndpoint, the kubernetes-auth service, and the Harbor *)
(* user table reached through package dao.  Several calls run              *)
(* concurrently.  Package dao is not part of the sources at hand; its      *)
(* operations follow the local user store contract of the specification.  *)
(*                                                                         *)
(* Later versions of the package (src/unnamed/part_003) derive an email    *)
(* for each user and configure the URL and the HTTP client when the        *)
(* process starts; they are modelled after the first, each with a          *)
(* specification of its own: SpecEmail, SpecApply and SpecBoot.            *)
(***************************************************************************)
EXTENDS Integers, Sequences, FiniteSets, TLC

\* ------------------------------------------------------------------ bounds

\* Authenticate calls started in one behaviour.
MaxCalls == 3

\* ------------------------------------------------------------- environment

\* Goroutines of the host that serve logins.
Calls == {"c1", "c2"}

\* What a user may type into the username field (m.Principal).
Principals == {"alice", "mallory"}

\* What a user may type into the password field (m.Password).
Tokens == {"tok-1", "tok-2", "bad"}

\* The identities kubernetes-auth knows.
UIDs == {"u1", "u2"}

\* The tokens kubernetes-auth accepts, and whose they are.
ValidTokens == {"tok-1", "tok-2"}

TokenUID(t) == IF t = "tok-1" THEN "u1" ELSE "u2"

\* The display names the backend may give identity u: u1 is alice or alice2,
\* u2 is bob or, as u1 may be, alice.
BackendNames(u) == IF u = "u1" THEN {"alice", "alice2"} ELSE {"bob", "alice"}

InitialNames == [u \in UIDs |-> IF u = "u1" THEN "alice" ELSE "bob"]

\* What config.RackspaceMK8SAuthURL() may return as the value.
ConfigURL == "http://app:8080"

\* ------------------------------------------------------------ wire format

\* A response body: the text received and, when it is JSON, its members.  A
\* member that is absent from the JSON text is absent from doc.
GarbageBody == [raw |-> "<html>", valid |-> FALSE, doc |-> [raw |-> "<html>"]]

RejectBody ==
    [raw |-> "reject", valid |-> TRUE,
     doc |-> [authenticated |-> "false", error |-> "invalid token"]]

AcceptBody(uid, name) ==
    [raw |-> "accept", valid |-> TRUE,
     doc |-> [authenticated |-> "true", username |-> name, uid |-> uid]]

\* The zero value of AuthResponse, reduced to the members Authenticate reads.
ZeroAuthResponse ==
    [Authenticated |-> FALSE, Error |-> "", Username |-> "", UID |-> ""]

Member(doc, key) == IF key \in DOMAIN doc THEN doc[key] ELSE ""

\* Unmarshal, were it to accept any text and leave authResp zero.
UnmarshalLenient(body) ==
    [err |-> FALSE,
     authResp |-> [Authenticated |-> Member(body.doc, "authenticated") = "true",
                   Error |-> Member(body.doc, "error"),
                   Username |-> Member(body.doc, "username"),
                   UID |-> Member(body.doc, "uid")]]

\* json.Unmarshal(authRespBody, &authResp): an error for text that is not
\* JSON of the wire schema, else the members present, the rest left zero.
Unmarshal(body) ==
    IF ~body.valid
    THEN [err |-> TRUE, authResp |-> ZeroAuthResponse]
    ELSE [err |-> FALSE,
          authResp |-> [Authenticated |-> Member(body.doc, "authenticated") = "true",
                        Error |-> Member(body.doc, "error"),
                        Username |-> Member(body.doc, "username"),
                        UID |-> Member(body.doc, "uid")]]

\* AuthRequestBody, were it to send the username typed.
AuthRequestBodyOfPrincipal(m) == [spec |-> [token |-> m.Principal]]

\* The request body built from the credential: {"spec": {"token": "<m.Password>"}}.
AuthRequestBody(m) == [spec |-> [token |-> m.Password]]

\* What kubernetes-auth may answer to a request carrying token t while the
\* backend's display names are names: no answer at all, an answer whose body
\* cannot be read, or a status and a body.
Reply(kind, status, body) == [kind |-> kind, status |-> status, body |-> body]

ServiceReplies(t, names) ==
    {Reply("neterr", 0, GarbageBody), Reply("readerr", 200, GarbageBody)}
    \cup (IF t \in ValidTokens
          THEN {Reply("ok", 200, AcceptBody(TokenUID(t), names[TokenUID(t)]))}
          ELSE {Reply("ok", 200, RejectBody), Reply("ok", 401, RejectBody)})
    \cup {Reply("ok", 200, GarbageBody), Reply("ok", 404, GarbageBody),
          Reply("ok", 500, GarbageBody), Reply("ok", 503, RejectBody)}

\* ---------------------------------------------------------------- models

\* An email address is the sequence of the strings it is joined from; the
\* empty string is the empty sequence.
NoEmail == <<>>

\* models.User, reduced to the fields Authenticate sets or reads.
ZeroUser ==
    [UserID |-> 0, Realname |-> "", Username |-> "", Email |-> NoEmail,
     Password |-> "", Comment |-> ""]

\* ------------------------------------------------------------------- dao

\* FindByKey as an existence test: is there a user whose realname is the
\* query's.
UserExists(users, query) == \E r \in users : r.Realname = query.Realname

\* FindByKey: the users whose realname is the query's (none, or the one).
GetUser(users, query) == {r \in users : r.Realname = query.Realname}

\* Create: the store refuses a user whose federation key or email another
\* user already has.
DuplicateKey(users, u) ==
    \E r \in users : r.Realname = u.Realname \/ r.Email = u.Email

\* Create: the user as stored under the identifier the store assigns.
Register(users, id, u) == users \cup {[u EXCEPT !.UserID = id]}

\* Update: the profile of the user whose identifier is u's is overwritten by
\* u's; a u whose identifier no user has changes nothing.
ChangeUserProfile(users, u) ==
    {IF r.UserID = u.UserID
     THEN [r EXCEPT !.Username = u.Username, !.Email = u.Email,
                    !.Realname = u.Realname, !.Comment = u.Comment]
     ELSE r : r \in users}

\* ------------------------------------------------------------------- log

\* One argument of a log line: the expression formatted and its value.
Arg(expr, val) == [arg |-> expr, val |-> val]

P(f) == Arg("m.Principal", f.m.Principal)

IDArgs(f) ==
    <<P(f), Arg("User.UID", f.authResp.UID), Arg("User.Username", f.authResp.Username)>>

Log(f, line) == [f EXCEPT !.log = Append(@, line)]

\* ----------------------------------------------------------------- frame

\* The error values Authenticate returns: where the error arose, and for the
\* two errors made with fmt.Errorf("%d %s", ...) the status code and the text.
Err(site, code, text) == [site |-> site, code |-> code, text |-> text]

\* The locals of one Authenticate call.  Pointers that may be nil
\* (existingUser, the results) are sets of at most one element.  Three
\* fields record what the call did: trace the requests and dao calls in
\* order, given the users handed to a writing dao call, failed the dao calls
\* that returned an error.
IdleFrame ==
    [pc |-> "idle", m |-> [Principal |-> "", Password |-> ""],
     req |-> {}, resp |-> {}, body |-> "none",
     authResp |-> ZeroAuthResponse, exist |-> FALSE,
     user |-> ZeroUser, existingUser |-> {},
     retUser |-> {}, err |-> {}, log |-> <<>>, trace |-> <<>>,
     given |-> {}, failed |-> {}]

Event(f, e) == [f EXCEPT !.trace = Append(@, e)]

\* The dao call op is handed user u.
Given(f, op, u) == [f EXCEPT !.given = @ \cup {[op |-> op, user |-> u]}]

\* The dao call op returns an error.
StoreFailed(f, op, cause) == [f EXCEPT !.failed = @ \cup {[op |-> op, cause |-> cause]}]

\* The deferred resp.Body.Close() runs when Authenticate returns.
Closed(body) == IF body = "open" THEN "closed" ELSE body

Returned(f) == f.pc = "returned"

\* Fail, were the body closed on the way to a user only.
FailLeavingOpen(f, e) == [f EXCEPT !.pc = "returned", !.err = {e}]

\* return nil, err
Fail(f, e) == [f EXCEPT !.pc = "returned", !.err = {e}, !.body = Closed(@)]

\* return &user, nil
Return(f) == [f EXCEPT !.pc = "returned", !.retUser = {f.user}, !.body = Closed(@)]

\* ---------------------------------------------------- Authenticate, by step

\* AttemptLine, were it to format the token as well.
AttemptLineWithToken(m) ==
    <<Arg("m.Principal", m.Principal), Arg("m.Password", m.Password)>>

\* Line 63: what the first log line formats.
AttemptLine(m) == <<Arg("m.Principal", m.Principal)>>

\* Line 63: the call is entered with credential m.
Attempt(m) ==
    Event(Log([IdleFrame EXCEPT !.pc = "resolve", !.m = m], AttemptLine(m)),
          "Received")

\* The endpoint as cached: the empty string, or URL and path joined.
NoEndpoint == <<>>

TokenEndpoint(url) == <<url, "/authenticate/token">>

\* Line 66: the cached endpoint is read; the call goes on to the request when
\* it is not empty, to the configuration when it is.
TestEndpoint(f, endpoint) ==
    IF endpoint # NoEndpoint THEN [f EXCEPT !.pc = "send"] ELSE f

\* Lines 66-78: the endpoint is resolved from the configuration unless it is
\* cached.  cfg is what config.RackspaceMK8SAuthURL() returns now.
\* Gives the frame and the cached endpoint afterwards.
ResolveEndpoint(f, endpoint, cfg) ==
    IF endpoint # NoEndpoint
    THEN [f |-> [f EXCEPT !.pc = "send"], endpoint |-> endpoint]
    ELSE IF cfg.err
    THEN [f |-> Fail(Log(f, <<P(f), Arg("common.RackspaceMK8SAuthURL", "key"),
                              Arg("err", "config")>>),
                     Err("config.RackspaceMK8SAuthURL", 0, "")),
          endpoint |-> endpoint]
    ELSE IF cfg.value = ""
    THEN [f |-> Fail(Log(f, <<P(f), Arg("common.RackspaceMK8SAuthURL", "key")>>),
                     Err("config value empty", 0, "")),
          endpoint |-> endpoint]
    ELSE [f |-> [f EXCEPT !.pc = "send"], endpoint |-> TokenEndpoint(cfg.value)]

\* Lines 81-92: the request is built and handed to client.Do.
SendRequest(f, endpoint) ==
    LET g == Log(f, <<P(f), Arg("authServerURLTokenEndpoint", endpoint[1])>>)
    IN  Event([g EXCEPT !.pc = "receive",
                        !.req = {[method |-> "POST", url |-> endpoint,
                                  body |-> AuthRequestBody(f.m)]}],
              "Dispatched")

\* ServerError, were the comparison strict.
ServerErrorAbove500(status) == status > 500

\* Line 107: the check for an auth server error.
ServerError(status) == status >= 500

\* Line 123: a parsed response is accepted when the status is 200.
Accepted(status, authResp) == status = 200

\* QueryUser, were line 134 missing.
QueryUserUnkeyed(authResp) == ZeroUser

\* QueryUser, were the display name taken for the key.
QueryUserByName(authResp) == [ZeroUser EXCEPT !.Realname = authResp.Username]

\* Line 134: the query and new-user value carries the UID as its realname.
QueryUser(authResp) == [ZeroUser EXCEPT !.Realname = authResp.UID]

\* SendFailed, were the request sent again instead.
SendFailedRetried(f) == [f EXCEPT !.pc = "send"]

\* Lines 93-96: client.Do returned an error, which is logged and returned.
SendFailed(f) ==
    Fail(Log(f, <<P(f), Arg("err", "client.Do")>>), Err("client.Do", 0, ""))

\* Lines 92-134: client.Do returns, the body is read, the status is checked
\* and the body parsed.  reply is what the service answered.
ReceiveResponse(f, reply) ==
    IF reply.kind = "neterr" THEN SendFailed(f)
    ELSE
    LET g == [f EXCEPT !.resp = {reply}, !.body = "open"]
        parsed == Unmarshal(reply.body)
        h == Log([g EXCEPT !.authResp = parsed.authResp],
                 <<P(g), Arg("Status.Authenticated",
                             IF parsed.authResp.Authenticated THEN "true" ELSE "false")>>)
    IN  IF reply.kind = "readerr"
        THEN Fail(Log(g, <<P(g), Arg("err", "ioutil.ReadAll")>>),
                  Err("ioutil.ReadAll", 0, ""))
        ELSE IF ServerError(reply.status)
        THEN Fail(Log(g, <<P(g), Arg("authRespBody", reply.body.raw)>>),
                  Err("StatusCode>=500", reply.status, reply.body.raw))
        ELSE IF parsed.err
        THEN Fail(Log(g, <<P(g), Arg("err", "json.Unmarshal")>>),
                  Err("json.Unmarshal", 0, ""))
        ELSE IF ~Accepted(reply.status, parsed.authResp)
        THEN Fail(Log(h, <<P(h), Arg("Status.Error", parsed.authResp.Error)>>),
                  Err("StatusCode!=200", reply.status, parsed.authResp.Error))
        ELSE [Log(h, IDArgs(h)) EXCEPT !.pc = "exists",
                                       !.user = QueryUser(parsed.authResp)]

\* DaoErr, were the error logged and the user returned all the same.
DaoErrDropped(f, op) ==
    Return(Log(Event(StoreFailed(f, op, "failure"), op),
               Append(IDArgs(f), Arg("err", op))))

\* What a dao call may do besides its work: fail (the database is down).
\* The error is logged and returned (lines 137-140, 146-149, 159-162).
DaoErr(f, op) ==
    Fail(Log(Event(StoreFailed(f, op, "failure"), op),
             Append(IDArgs(f), Arg("err", op))),
         Err(op, 0, "failure"))

\* Lines 136-142: dao.UserExists(user, "realname").
DoUserExists(f, users, failed) ==
    IF failed THEN DaoErr(f, "dao.UserExists")
    ELSE LET exist == UserExists(users, f.user)
         IN  [Event(f, "dao.UserExists") EXCEPT
                 !.exist = exist, !.pc = IF exist THEN "get" ELSE "register"]

\* FoundUser, were line 165 missing.
FoundUserUnfetched(user, existingUser) == user

\* Line 165, and line 181 after it: the stored user is the one returned.
FoundUser(user, existingUser) == existingUser

\* Lines 143-156, and 165 when the username is unchanged: dao.GetUser(user).
DoGetUser(f, users, failed) ==
    IF failed THEN DaoErr(Log(f, IDArgs(f)), "dao.GetUser")
    ELSE
    LET g == Event(Log(f, IDArgs(f)), "dao.GetUser")
        found == GetUser(users, f.user)
    IN  IF found = {}
        THEN Fail(g, Err("nil pointer dereference", 0, ""))
        ELSE LET existingUser == CHOOSE r \in found : TRUE
             IN  IF existingUser.Username # f.authResp.Username
                 THEN [Log(g, IDArgs(g)) EXCEPT
                          !.pc = "update",
                          !.user.Username = f.authResp.Username,
                          !.existingUser =
                              {[existingUser EXCEPT !.Username = f.authResp.Username]}]
                 ELSE Return([g EXCEPT !.existingUser = {existingUser},
                                       !.user = FoundUser(f.user, existingUser)])

\* ProfileArgument, were the stored user handed over with the display name
\* for its realname.
ProfileArgumentRekeyed(user, existingUser) ==
    [existingUser EXCEPT !.Realname = existingUser.Username]

\* Line 158: the value handed to dao.ChangeUserProfile.
ProfileArgument(user, existingUser) == user

\* DoChangeUserProfile, were the update followed by the create branch.
DoChangeUserProfileFallingThrough(f, users, failed) ==
    LET existingUser == CHOOSE r \in f.existingUser : TRUE
        arg == ProfileArgument(f.user, existingUser)
        g == Given(f, "dao.ChangeUserProfile", arg)
    IN  [f |-> [Event(g, "dao.ChangeUserProfile") EXCEPT !.pc = "register"],
         users |-> ChangeUserProfile(users, arg)]

\* Lines 158-165: dao.ChangeUserProfile(user).
\* Gives the frame and the user table afterwards.
DoChangeUserProfile(f, users, failed) ==
    LET existingUser == CHOOSE r \in f.existingUser : TRUE
        arg == ProfileArgument(f.user, existingUser)
        g == Given(f, "dao.ChangeUserProfile", arg)
    IN  IF failed
        THEN [f |-> DaoErr(g, "dao.ChangeUserProfile"), users |-> users]
        ELSE [f |-> Return([Event(g, "dao.ChangeUserProfile") EXCEPT
                               !.user = FoundUser(f.user, existingUser)]),
              users |-> ChangeUserProfile(users, arg)]

\* Lines 169-171: the user to create, made of the query value.
NewUser(user, authResp) ==
    [user EXCEPT !.Username = authResp.Username,
                     !.Password = "ThisPassw0rdIsNotused",
                     !.Comment = "Rackspace MK8S Auth DON'T EDIT"]

\* Registered, were the error of dao.Register dropped.
RegisteredIgnoringError(f, user, ok, op, cause) ==
    Return([Event(f, op) EXCEPT !.user = user])

\* Lines 174-178: the outcome of dao.Register is an error returned, or the
\* user returned with the identifier assigned.
Registered(f, user, ok, op, cause) ==
    IF ok THEN Return([Event(f, op) EXCEPT !.user = user])
    ELSE Fail(Log(Event(StoreFailed([f EXCEPT !.user = user], op, cause), op),
                  Append(IDArgs(f), Arg("err", op))),
              Err(op, 0, cause))

\* Lines 167-179: dao.Register(user).  id is the identifier the store would
\* assign.  Gives the frame and the user table afterwards.
DoRegister(f, users, id, failed) ==
    LET user == NewUser(f.user, f.authResp)
        g == Given(Log(f, IDArgs(f)), "dao.Register", user)
    IN  IF failed
        THEN [f |-> Registered(g, user, FALSE, "dao.Register", "failure"),
              users |-> users]
        ELSE IF DuplicateKey(users, user)
        THEN [f |-> Registered(g, user, FALSE, "dao.Register", "duplicate key"),
              users |-> users]
        ELSE [f |-> Registered(g, [user EXCEPT !.UserID = id], TRUE,
                               "dao.Register", ""),
              users |-> Register(users, id, user)]

\* ----------------------------------------------------------------- state

VARIABLES
    call,                         \* the frame of each goroutine's call
    users,                        \* the Harbor user table
    nextID,                       \* the identifier the table assigns next
    authServerURLTokenEndpoint,   \* the package variable of that name
    names,                        \* the backend's display name of each identity
    started,                      \* calls started so far
    history,                      \* the (UID, UserID) of the users returned so far
    twin,                         \* one call made twice over, see Authenticate
    applied,                      \* a function applied once: its input and result
    boot                          \* the start of the process: init() and its inputs

vars ==
    <<call, users, nextID, authServerURLTokenEndpoint, names, started, history,
      twin, applied, boot>>

\* What config.RackspaceMK8SAuthURL() may return: an error, an empty value,
\* or the URL.
ConfigResults ==
    {[err |-> TRUE, value |-> ""], [err |-> FALSE, value |-> ""],
     [err |-> FALSE, value |-> ConfigURL]}

\* Lines 59-182 run without interruption: Authenticate(m) from the user
\* table, next identifier and cached endpoint of sh, with the configuration
\* value, service reply and failing dao call (if any) of env.  Gives the
\* frame at return and the table, identifier and endpoint afterwards.
Authenticate(m, sh, env) ==
    LET a == ResolveEndpoint(Attempt(m), sh.endpoint, env.cfg)
        b == ReceiveResponse(SendRequest(a.f, a.endpoint), env.reply)
        d == DoUserExists(b, sh.users, env.failing = "dao.UserExists")
        e == DoGetUser(d, sh.users, env.failing = "dao.GetUser")
        u == DoChangeUserProfile(e, sh.users, env.failing = "dao.ChangeUserProfile")
        r == DoRegister(d, sh.users, sh.nextID, env.failing = "dao.Register")
        Out(f, us) ==
            [f |-> f, users |-> us, endpoint |-> a.endpoint,
             nextID |-> IF us = sh.users THEN sh.nextID ELSE sh.nextID + 1]
    IN  IF Returned(a.f) THEN Out(a.f, sh.users)
        ELSE IF Returned(b) THEN Out(b, sh.users)
        ELSE IF Returned(d) THEN Out(d, sh.users)
        ELSE IF d.pc = "register" THEN Out(r.f, r.users)
        ELSE IF Returned(e) THEN Out(e, sh.users)
        ELSE Out(u.f, u.users)

\* No call is made twice over.
NoTwin == [pc |-> "none"]

\* No function is applied on its own.
NoApplication == [pc |-> "none"]

\* The start of the process is left out.
NoBoot == [pc |-> "none"]

\* Line 186: the name the authenticator is registered under.
AuthMode == "rackspace_mk8s_auth"

\* auth.Register(name, authenticator): the registry of the host takes the
\* entry; registry is the names registered, in order.
HostRegister(registry, name) == Append(registry, name)

\* The process with the package loaded, before init() runs.
Loaded == [pc |-> "start", registry |-> <<>>]

\* Lines 184-187: init() registers the authenticator, and does nothing else.
initRegister(b) ==
    [b EXCEPT !.pc = "running", !.registry = HostRegister(@, AuthMode)]

\* The host hands logins to an authenticator registered under the name.
IsRegistered(b) ==
    b.pc = "running" /\ \E i \in DOMAIN b.registry : b.registry[i] = AuthMode

Init ==
    /\ call = [c \in Calls |-> IdleFrame]
    /\ users = {}
    /\ nextID = 1
    /\ authServerURLTokenEndpoint = NoEndpoint
    /\ names = InitialNames
    /\ started = 0
    /\ history = {}
    /\ twin = NoTwin
    /\ applied = NoApplication
    /\ boot = Loaded

\* The process starts: init() runs (lines 184-187).
Start ==
    /\ boot.pc = "start"
    /\ boot' = initRegister(boot)
    /\ UNCHANGED <<applied, twin, call, users, nextID, authServerURLTokenEndpoint,
                   names, started, history>>

\* The host calls Authenticate(m); the call runs up to its reading of the
\* cached endpoint (line 66).
Begin(c) ==
    /\ IsRegistered(boot)
    /\ call[c].pc = "idle"
    /\ started < MaxCalls
    /\ \E p \in Principals, t \in Tokens :
          call' = [call EXCEPT ![c] =
                      TestEndpoint(Attempt([Principal |-> p, Password |-> t]),
                                   authServerURLTokenEndpoint)]
    /\ started' = started + 1
    /\ UNCHANGED <<applied, boot, twin, users, nextID, authServerURLTokenEndpoint,
                   names, history>>

\* Lines 67-77: the call that read an empty endpoint asks the configuration
\* and, given a value, writes the endpoint made of it to the package
\* variable, whatever another call has written there since.
Resolve(c) ==
    /\ call[c].pc = "resolve"
    /\ \E cfg \in ConfigResults :
          LET r == ResolveEndpoint(call[c], NoEndpoint, cfg)
          IN  /\ call' = [call EXCEPT ![c] = r.f]
              /\ authServerURLTokenEndpoint' =
                    IF r.endpoint = NoEndpoint THEN authServerURLTokenEndpoint
                    ELSE r.endpoint
    /\ UNCHANGED <<applied, boot, twin, users, nextID, names, started, history>>

Send(c) ==
    /\ call[c].pc = "send"
    /\ call' = [call EXCEPT ![c] = SendRequest(@, authServerURLTokenEndpoint)]
    /\ UNCHANGED <<applied, boot, twin, users, nextID, authServerURLTokenEndpoint, names, started, history>>

\* kubernetes-auth answers the request in flight, or the network fails.
Receive(c) ==
    /\ call[c].pc = "receive"
    /\ \E req \in call[c].req :
          \E reply \in ServiceReplies(req.body.spec.token, names) :
             call' = [call EXCEPT ![c] = ReceiveResponse(@, reply)]
    /\ UNCHANGED <<applied, boot, twin, users, nextID, authServerURLTokenEndpoint, names, started, history>>

Exists(c) ==
    /\ call[c].pc = "exists"
    /\ \E failed \in BOOLEAN :
          call' = [call EXCEPT ![c] = DoUserExists(@, users, failed)]
    /\ UNCHANGED <<applied, boot, twin, users, nextID, authServerURLTokenEndpoint, names, started, history>>

Get(c) ==
    /\ call[c].pc = "get"
    /\ \E failed \in BOOLEAN :
          call' = [call EXCEPT ![c] = DoGetUser(@, users, failed)]
    /\ UNCHANGED <<applied, boot, twin, users, nextID, authServerURLTokenEndpoint, names, started, history>>

Update(c) ==
    /\ call[c].pc = "update"
    /\ \E failed \in BOOLEAN :
          LET r == DoChangeUserProfile(call[c], users, failed)
          IN  /\ call' = [call EXCEPT ![c] = r.f]
              /\ users' = r.users
    /\ UNCHANGED <<applied, boot, twin, nextID, authServerURLTokenEndpoint, names, started, history>>

Create(c) ==
    /\ call[c].pc = "register"
    /\ \E failed \in BOOLEAN :
          LET r == DoRegister(call[c], users, nextID, failed)
          IN  /\ call' = [call EXCEPT ![c] = r.f]
              /\ users' = r.users
              /\ nextID' = IF r.users = users THEN nextID ELSE nextID + 1
    /\ UNCHANGED <<applied, boot, twin, authServerURLTokenEndpoint, names, started, history>>

\* The host takes the result; the goroutine is free for the next login.
Finish(c) ==
    /\ call[c].pc = "returned"
    /\ history' = history \cup
          {[UID |-> call[c].authResp.UID, UserID |-> u.UserID] : u \in call[c].retUser}
    /\ call' = [call EXCEPT ![c] = IdleFrame]
    /\ UNCHANGED <<applied, boot, twin, users, nextID, authServerURLTokenEndpoint, names, started>>

\* The display name of identity u changes in the kubernetes-auth backend.
Rename(u) ==
    /\ \E n \in BackendNames(u) \ {names[u]} : names' = [names EXCEPT ![u] = n]
    /\ UNCHANGED <<applied, boot, twin, call, users, nextID, authServerURLTokenEndpoint, started, history>>

Next ==
    \/ Start
    \/ \E c \in Calls :
          \/ Begin(c)
          \/ Resolve(c)
          \/ Send(c)
          \/ Receive(c)
          \/ Exists(c)
          \/ Get(c)
          \/ Update(c)
          \/ Create(c)
          \/ Finish(c)
    \/ \E u \in UIDs : Rename(u)

Spec == Init /\ [][Next]_vars

\* ------------------------------------------- one call under two principals

\* A user table as one earlier call leaves it: the user created for a
\* response with this UID and display name.
TableWith(uid, name) ==
    LET authResp == [ZeroAuthResponse EXCEPT !.UID = uid, !.Username = name]
    IN  Register({}, 1, NewUser(QueryUser(authResp), authResp))

\* The user tables a call may start from: empty, or holding the user of one
\* identity, or the user created for a rejection at status 200.
TwinTables ==
    {{}} \cup UNION {{TableWith(u, n) : n \in BackendNames(u)} : u \in UIDs}
         \cup {TableWith("", "")}

Failing ==
    {"none", "dao.UserExists", "dao.GetUser", "dao.ChangeUserProfile", "dao.Register"}

\* What the service may answer to token t, whatever the display names are.
TwinReplies(t) ==
    UNION {ServiceReplies(t, ns) :
             ns \in {[u \in UIDs |-> IF u = "u1" THEN n1 ELSE n2] :
                        n1 \in BackendNames("u1"), n2 \in BackendNames("u2")}}

\* A credential with token t, another principal, and everything else a call
\* depends on: the shared state it starts from and what its environment
\* answers.
TwinInputsFor(t) ==
    {[pc |-> "ready", m |-> [Principal |-> p, Password |-> t], other |-> q,
      sh |-> [users |-> us, nextID |-> Cardinality(us) + 1, endpoint |-> ep],
      env |-> [cfg |-> cfg, reply |-> reply, failing |-> failing],
      out |-> {}, outOther |-> {}] :
        p \in Principals, q \in Principals,
        us \in TwinTables, ep \in {NoEndpoint, TokenEndpoint(ConfigURL)},
        cfg \in ConfigResults, failing \in Failing, reply \in TwinReplies(t)}

TwinInputs == UNION {TwinInputsFor(t) : t \in Tokens}

InitPrincipal ==
    /\ call = [c \in Calls |-> IdleFrame]
    /\ users = {}
    /\ nextID = 1
    /\ authServerURLTokenEndpoint = NoEndpoint
    /\ names = InitialNames
    /\ started = 0
    /\ history = {}
    /\ twin \in {i \in TwinInputs : i.m.Principal # i.other}
    /\ applied = NoApplication
    /\ boot = NoBoot

\* The call is made with the credential, and made again from the same state
\* and with the same answers with the other principal in the credential.
RunTwin ==
    /\ twin.pc = "ready"
    /\ twin' = [twin EXCEPT
                   !.pc = "done",
                   !.out = {Authenticate(twin.m, twin.sh, twin.env)},
                   !.outOther = {Authenticate([twin.m EXCEPT !.Principal = twin.other],
                                              twin.sh, twin.env)}]
    /\ UNCHANGED <<applied, boot, call, users, nextID, authServerURLTokenEndpoint,
                   names, started, history>>

SpecPrincipal == InitPrincipal /\ [][RunTwin]_vars

\* ------------------------------------- the package that sets the emails
\* (src/unnamed/part_003, lines 1-249: the endpoint and the client are set
\* by init(), users are looked up with dao.GetUser alone, and the email of a
\* user is made by emailAddress)

\* The (fake) default email domain.
defaultEmailDomain == "fake-rackspace-mk8s.com"

\* What randString() may return: 32 letters drawn with math/rand.
RandStrings ==
    {"XVlBzgbaiCMRAjWwhTHctcuAxhxKQFDa", "FpLSjFbcXoEFfRsWxPLDnJObCsNVlgTe"}

\* fmt.Sprintf("%s@%s", local, defaultEmailDomain)
DerivedEmail(local) == <<local, "@", defaultEmailDomain>>

\* emailAddress, were the address made of the username whatever the email.
emailAddressOfUsername(u, rand) ==
    IF u.Username # "" THEN DerivedEmail(u.Username) ELSE DerivedEmail(rand)

\* emailAddress, were the fallback for an empty username missing.
emailAddressNoFallback(u, rand) ==
    IF u.Email # NoEmail THEN u.Email
    ELSE IF u.Username # "" THEN DerivedEmail(u.Username)
    ELSE u.Email

\* emailAddress(u); rand is what randString() returns when it is called.
emailAddress(u, rand) ==
    IF u.Email # NoEmail THEN u.Email
    ELSE IF u.Username # "" THEN DerivedEmail(u.Username)
    ELSE DerivedEmail(rand)

\* Lines 151-152: the user fetched takes the backend's username, then the
\* email emailAddress gives it.
Renamed(user, authResp, rand) ==
    LET u == [user EXCEPT !.Username = authResp.Username]
    IN  [u EXCEPT !.Email = emailAddress(u, rand)]

\* Lines 165-170: the user to create; pw is what randString() returns for
\* the password.
CreatedUser(authResp, pw, rand) ==
    LET u == [ZeroUser EXCEPT !.Realname = authResp.UID,
                              !.Username = authResp.Username,
                              !.Password = pw,
                              !.Comment = "Do not edit this user"]
    IN  [u EXCEPT !.Email = emailAddress(u, rand)]

\* Lines 128-172: the user is fetched by its realname, then updated when the
\* backend's username differs, or created when there is none.
Reconcile(f, sh, env) ==
    LET found == GetUser(sh.users, [ZeroUser EXCEPT !.Realname = f.authResp.UID])
        Out(g, us) ==
            [f |-> g, users |-> us,
             nextID |-> IF us = sh.users THEN sh.nextID ELSE sh.nextID + 1]
    IN  IF env.failing = "dao.GetUser" THEN Out(DaoErr(f, "dao.GetUser"), sh.users)
        ELSE IF found # {}
        THEN LET existing == CHOOSE r \in found : TRUE
                 g == [Event(f, "dao.GetUser") EXCEPT !.existingUser = {existing},
                                                      !.user = existing]
                 user == Renamed(existing, f.authResp, env.rand)
                 h == Given([g EXCEPT !.user = user], "dao.ChangeUserProfile", user)
             IN  IF existing.Username = f.authResp.Username
                 THEN Out(Return(g), sh.users)
                 ELSE IF env.failing = "dao.ChangeUserProfile"
                 THEN Out(DaoErr(h, "dao.ChangeUserProfile"), sh.users)
                 ELSE Out(Return(Event(h, "dao.ChangeUserProfile")),
                          ChangeUserProfile(sh.users, user))
        ELSE LET user == CreatedUser(f.authResp, env.pw, env.rand)
                 g == Given(Event(f, "dao.GetUser"), "dao.Register", user)
             IN  IF env.failing = "dao.Register"
                 THEN Out(Registered(g, user, FALSE, "dao.Register", "failure"),
                          sh.users)
                 ELSE IF DuplicateKey(sh.users, user)
                 THEN Out(Registered(g, user, FALSE, "dao.Register", "duplicate key"),
                          sh.users)
                 ELSE Out(Registered(g, [user EXCEPT !.UserID = sh.nextID], TRUE,
                                     "dao.Register", ""),
                          Register(sh.users, sh.nextID, user))

\* Lines 76-173 run without interruption: Authenticate(m) of this package
\* from the user table and next identifier of sh; env holds the service
\* reply, the failing dao call (if any) and the results of randString().
\* Gives the frame at return and the table and identifier afterwards.
AuthenticateWithEmail(m, sh, env) ==
    LET f == Event(Log([IdleFrame EXCEPT
                           !.pc = "receive", !.m = m,
                           !.req = {[method |-> "POST", url |-> TokenEndpoint(ConfigURL),
                                     body |-> AuthRequestBody(m)]}],
                       AttemptLine(m)),
                   "Dispatched")
        g == [f EXCEPT !.resp = {env.reply}, !.body = "open"]
        parsed == Unmarshal(env.reply.body)
        Out(h) == [f |-> h, users |-> sh.users, nextID |-> sh.nextID]
    IN  IF env.reply.kind = "neterr" THEN Out(Fail(f, Err("client.Post", 0, "")))
        ELSE IF env.reply.kind = "readerr"
        THEN Out(Fail(g, Err("ioutil.ReadAll", 0, "")))
        ELSE IF env.reply.status # 200
        THEN Out(Fail(g, Err("StatusCode!=200", env.reply.status, env.reply.body.raw)))
        ELSE IF parsed.err THEN Out(Fail(g, Err("json.Unmarshal", 0, "")))
        ELSE Reconcile([g EXCEPT !.authResp = parsed.authResp], sh, env)

\* The dao calls of this package that may fail.
FailingWithEmail == {"none", "dao.GetUser", "dao.ChangeUserProfile", "dao.Register"}

\* The host calls Authenticate(m) of this package; the call runs to its return.
Login(c) ==
    /\ call[c].pc = "idle"
    /\ started < MaxCalls
    /\ \E p \in Principals, t \in Tokens, failing \in FailingWithEmail,
          pw \in RandStrings, rand \in RandStrings :
          \E reply \in ServiceReplies(t, names) :
             LET o == AuthenticateWithEmail(
                          [Principal |-> p, Password |-> t],
                          [users |-> users, nextID |-> nextID],
                          [reply |-> reply, failing |-> failing, pw |-> pw,
                           rand |-> rand])
             IN  /\ call' = [call EXCEPT ![c] = o.f]
                 /\ users' = o.users
                 /\ nextID' = o.nextID
    /\ started' = started + 1
    /\ UNCHANGED <<applied, boot, twin, authServerURLTokenEndpoint, names, history>>

\* The logins of this package, one after the other on one goroutine, and the
\* display names changing in between.
NextEmail ==
    \/ Login("c1")
    \/ Finish("c1")
    \/ \E u \in UIDs : Rename(u)

InitEmail ==
    /\ call = [c \in Calls |-> IdleFrame]
    /\ users = {}
    /\ nextID = 1
    /\ authServerURLTokenEndpoint = NoEndpoint
    /\ names = InitialNames
    /\ started = 0
    /\ history = {}
    /\ twin = NoTwin
    /\ applied = NoApplication
    /\ boot = NoBoot

SpecEmail == InitEmail /\ [][NextEmail]_vars

\* ------------------------------------------------ emailAddress on its own

\* The emails a user may have before emailAddress is asked: none, one set by
\* hand, one derived from a display name or from a random string earlier.
EmailsBefore ==
    {NoEmail, <<"alice@example.com">>, DerivedEmail("alice"), DerivedEmail("bob")}
    \cup {DerivedEmail(r) : r \in RandStrings}

\* The usernames a user may have: none, or a display name.
UsernamesBefore == {"", "alice", "alice2", "bob"}

\* The users emailAddress may be given, each with what randString() would
\* return were it called.
EmailInputs ==
    {[pc |-> "ready",
      u |-> [ZeroUser EXCEPT !.Email = e, !.Username = n, !.Realname = k],
      rand |-> r, out |-> {}] :
        e \in EmailsBefore, n \in UsernamesBefore, k \in UIDs \cup {""},
        r \in RandStrings}

InitApply ==
    /\ call = [c \in Calls |-> IdleFrame]
    /\ users = {}
    /\ nextID = 1
    /\ authServerURLTokenEndpoint = NoEndpoint
    /\ names = InitialNames
    /\ started = 0
    /\ history = {}
    /\ twin = NoTwin
    /\ applied \in EmailInputs
    /\ boot = NoBoot

\* emailAddress(u) is called.
ApplyEmailAddress ==
    /\ applied.pc = "ready"
    /\ applied' = [applied EXCEPT !.pc = "done",
                                  !.out = {emailAddress(applied.u, applied.rand)}]
    /\ UNCHANGED <<boot, twin, call, users, nextID, authServerURLTokenEndpoint,
                   names, started, history>>

SpecApply == InitApply /\ [][ApplyEmailAddress]_vars

\* ------------------------------------------------ the start of the process
\* (src/unnamed/part_003 holds two versions of the package that read the URL
\* from the environment and build the HTTP client when the process starts:
\* lines 175-225, where init() does it all, and lines 424-503, where init()
\* calls setupAuth, getClient and needCustomCert; mk8sAuthURL is the same
\* in both but for a warning)

\* A value of the environment variable RACKSPACE_MK8S_AUTH_URL: its text, the
\* scheme it begins with (the letters before the first ":", if the text
\* begins so) and the first character after that (first is "x" for any
\* character but "/" and ":").
EnvURL(text, scheme, first) == [text |-> text, scheme |-> scheme, first |-> first]

\* The variable is not set: os.Getenv returns "".
Unset == EnvURL("", "", "")

\* Lines 493-496: the URL taken when the variable is not set.
DefaultAuthURL == EnvURL("http://app:8080", "http", "/")

EnvURLs ==
    {Unset, DefaultAuthURL,
     EnvURL("https://auth.example.com", "https", "/"),
     EnvURL("/authenticate", "", "/"),
     EnvURL("auth.example.com", "", "x"),
     EnvURL("://app:8080", "", ":")}

\* url.ParseRequestURI(raw), its error alone: the empty text, a text that
\* begins with ":", and a text with neither a scheme nor a leading "/" are
\* refused; an absolute URI and an absolute path are accepted.
ParseRequestURI(raw) ==
    IF raw.text = "" THEN [err |-> "empty url"]
    ELSE IF raw.scheme = "" /\ raw.first = ":" THEN [err |-> "missing protocol scheme"]
    ELSE IF raw.first # "/" /\ raw.scheme = "" THEN [err |-> "invalid URI for request"]
    ELSE [err |-> ""]

\* strings.HasPrefix(url, "https")
HasPrefixHTTPS(url) == url.scheme = "https"

\* mk8sAuthURL, were the URL never parsed.
mk8sAuthURLUnchecked(env) ==
    [fatal |-> FALSE, url |-> IF env.text = "" THEN DefaultAuthURL ELSE env]

\* Lines 488-503: mk8sAuthURL(); env is the value of the environment
\* variable.  fatal: log.Fatalf was called, which ends the process.
mk8sAuthURL(env) ==
    LET authURL == IF env.text = "" THEN DefaultAuthURL ELSE env
    IN  [fatal |-> ParseRequestURI(authURL).err # "", url |-> authURL]

\* The file at /etc/openstack/certs/ca.pem: whether it exists, its size, and
\* the certificates its PEM blocks hold.
CAFile(exists, size, certs) == [exists |-> exists, size |-> size, certs |-> certs]

CAFiles ==
    {CAFile(FALSE, 0, {}), CAFile(TRUE, 0, {}), CAFile(TRUE, 11, {}),
     CAFile(TRUE, 1200, {"openstack-ca"})}

\* The certificates of the system cert pool.
PlatformRoots == {"system-ca-1", "system-ca-2"}

\* http.DefaultClient: no transport of its own, so the default transport,
\* which verifies servers against the system roots.
DefaultClient == [transport |-> "none", roots |-> PlatformRoots]

\* &http.Client{Transport: &http.Transport{TLSClientConfig: &tls.Config{RootCAs: certs}}}
CustomClient(certs) == [transport |-> "custom", roots |-> certs]

\* needCustomCert, were the scheme of the URL not looked at.
needCustomCertAnyScheme(env, ca) == ca.exists /\ ca.size # 0

\* Lines 471-486: needCustomCert(caPath).
needCustomCert(env, ca) ==
    IF ~HasPrefixHTTPS(mk8sAuthURL(env).url) THEN FALSE
    ELSE IF ~ca.exists THEN FALSE
    ELSE IF ca.size = 0 THEN FALSE
    ELSE TRUE

\* Lines 442-469: getClient().  readErr: ioutil.ReadFile fails; poolErr:
\* x509.SystemCertPool fails.
getClient(env, ca, readErr, poolErr) ==
    IF needCustomCert(env, ca)
    THEN IF readErr THEN DefaultClient
         ELSE IF poolErr THEN DefaultClient
         ELSE CustomClient(PlatformRoots \cup ca.certs)
    ELSE DefaultClient

\* Lines 182-207: the client init() of the other version builds, or
\* log.Fatalf ends the process.
initClient(url, ca, readErr, poolErr) ==
    IF HasPrefixHTTPS(url)
    THEN IF poolErr THEN [fatal |-> TRUE, client |-> {}]
         ELSE IF ca.exists
         THEN IF readErr THEN [fatal |-> TRUE, client |-> {}]
              ELSE [fatal |-> FALSE,
                    client |-> {CustomClient(PlatformRoots \cup ca.certs)}]
         ELSE [fatal |-> FALSE, client |-> {CustomClient(PlatformRoots)}]
    ELSE [fatal |-> FALSE, client |-> {DefaultClient}]

\* The two versions of init().
Versions == {"init", "setupAuth"}

\* The process before init() runs: the version of the package linked in and
\* the environment it will meet.
BootInputs ==
    {[pc |-> "start", version |-> v, env |-> env, ca |-> ca, readErr |-> re,
      poolErr |-> pe, authURL |-> {}, client |-> {}, registry |-> <<>>,
      served |-> FALSE] :
        v \in Versions, env \in EnvURLs, ca \in CAFiles, re \in BOOLEAN,
        pe \in BOOLEAN}

InitBoot ==
    /\ call = [c \in Calls |-> IdleFrame]
    /\ users = {}
    /\ nextID = 1
    /\ authServerURLTokenEndpoint = NoEndpoint
    /\ names = InitialNames
    /\ started = 0
    /\ history = {}
    /\ twin = NoTwin
    /\ applied = NoApplication
    /\ boot \in BootInputs

\* Lines 424-440: init() runs setupAuth(), which asks mk8sAuthURL() and then
\* getClient(), and registers the authenticator; or log.Fatalf ends the
\* process.
initSetupAuth(b) ==
    LET u == mk8sAuthURL(b.env)
    IN  IF u.fatal THEN [b EXCEPT !.pc = "exited"]
        ELSE [b EXCEPT !.pc = "running",
                       !.authURL = {u.url},
                       !.client = {getClient(b.env, b.ca, b.readErr, b.poolErr)},
                       !.registry = HostRegister(@, AuthMode)]

\* Lines 175-209: init() of the other version registers the authenticator,
\* asks mk8sAuthURL() and builds the client; or log.Fatalf ends the process.
initAll(b) ==
    LET u == mk8sAuthURL(b.env)
        c == initClient(u.url, b.ca, b.readErr, b.poolErr)
        r == [b EXCEPT !.registry = HostRegister(@, AuthMode)]
    IN  IF u.fatal \/ c.fatal THEN [r EXCEPT !.pc = "exited"]
        ELSE [r EXCEPT !.pc = "running", !.authURL = {u.url}, !.client = c.client]

\* init() runs when the process starts.
PackageInit ==
    /\ boot.pc = "start"
    /\ boot' = IF boot.version = "init" THEN initAll(boot) ELSE initSetupAuth(boot)
    /\ UNCHANGED <<applied, twin, call, users, nextID, authServerURLTokenEndpoint,
                   names, started, history>>

\* The host hands a login to the authenticator registered.
Serve ==
    /\ IsRegistered(boot)
    /\ ~boot.served
    /\ boot' = [boot EXCEPT !.served = TRUE]
    /\ UNCHANGED <<applied, twin, call, users, nextID, authServerURLTokenEndpoint,
                   names, started, history>>

NextBoot == PackageInit \/ Serve

SpecBoot == InitBoot /\ [][NextBoot]_vars

\* ------------------------------------ logins of one stored identity, renamed

\* The display names the backend gives u1 over time.
DriftNames == {"alice", "alice2", "alice3"}

\* The process after the first login of u1 as "alice": init() has run, the
\* endpoint is resolved, and the user is stored under identifier 1.
InitDrift ==
    /\ call = [c \in Calls |-> IdleFrame]
    /\ users = TableWith("u1", "alice")
    /\ nextID = 2
    /\ authServerURLTokenEndpoint = TokenEndpoint(ConfigURL)
    /\ names = InitialNames
    /\ started = 0
    /\ history = {[UID |-> "u1", UserID |-> 1]}
    /\ twin = NoTwin
    /\ applied = NoApplication
    /\ boot = initRegister(Loaded)

\* The host calls Authenticate with the token of u1.
BeginDrift(c) ==
    /\ IsRegistered(boot)
    /\ call[c].pc = "idle"
    /\ started < MaxCalls
    /\ \E p \in Principals :
          call' = [call EXCEPT ![c] =
                      TestEndpoint(Attempt([Principal |-> p, Password |-> "tok-1"]),
                                   authServerURLTokenEndpoint)]
    /\ started' = started + 1
    /\ UNCHANGED <<applied, boot, twin, users, nextID, authServerURLTokenEndpoint,
                   names, history>>

\* The display name of u1 changes in the kubernetes-auth backend.
RenameDrift ==
    /\ \E n \in DriftNames \ {names["u1"]} : names' = [names EXCEPT !["u1"] = n]
    /\ UNCHANGED <<applied, boot, twin, call, users, nextID,
                   authServerURLTokenEndpoint, started, history>>

NextDrift ==
    \/ \E c \in Calls :
          \/ BeginDrift(c)
          \/ Send(c)
          \/ Receive(c)
          \/ Exists(c)
          \/ Get(c)
          \/ Update(c)
          \/ Finish(c)
    \/ RenameDrift

SpecDrift == InitDrift /\ [][NextDrift]_vars

\* ------------------------------ the configuration edited while calls run

\* The value config.RackspaceMK8SAuthURL() returns once the setting has been
\* edited.
EditedConfigURL == "http://auth:8080"

\* What config.RackspaceMK8SAuthURL() may return at one call or another.
ConfigResultsOverTime ==
    ConfigResults \cup {[err |-> FALSE, value |-> EditedConfigURL]}

\* Lines 67-77, the configuration read at the time of the call.
ResolveOverTime(c) ==
    /\ call[c].pc = "resolve"
    /\ \E cfg \in ConfigResultsOverTime :
          LET r == ResolveEndpoint(call[c], NoEndpoint, cfg)
          IN  /\ call' = [call EXCEPT ![c] = r.f]
              /\ authServerURLTokenEndpoint' =
                    IF r.endpoint = NoEndpoint THEN authServerURLTokenEndpoint
                    ELSE r.endpoint
    /\ UNCHANGED <<applied, boot, twin, users, nextID, names, started, history>>

NextConfig ==
    \/ Start
    \/ \E c \in Calls :
          \/ BeginDrift(c)
          \/ ResolveOverTime(c)
          \/ Send(c)
          \/ Receive(c)
          \/ Exists(c)
          \/ Get(c)
          \/ Update(c)
          \/ Create(c)
          \/ Finish(c)
    \/ RenameDrift

SpecConfig == Init /\ [][NextConfig]_vars

\* ================================================================ claims

StoreReads == {"dao.UserExists", "dao.GetUser"}

StoreWrites == {"dao.ChangeUserProfile", "dao.Register"}

\* The dao calls the call of frame f has made, in order.
Did(f, ops) == \E i \in DOMAIN f.trace : f.trace[i] \in ops

Succeeded(f) == Returned(f) /\ f.retUser # {} /\ f.err = {}

\* The call of frame f has returned the error e.
FailedWith(f, e) == Returned(f) /\ f.retUser = {} /\ f.err = {e}

\* The call of frame f got a response, fully read, with this property.
Got(f, Q(_)) == \E r \in f.resp : r.kind = "ok" /\ Q(r)

\* The response is an authenticated success: HTTP 200 and authenticated true.
Authentic(r) == r.status = 200 /\ Unmarshal(r.body).authResp.Authenticated

WithKey(uid) == {r \in users : r.Realname = uid}

\* The error kinds of the specification, by the place the error arises.
ErrorKind(e) ==
    CASE e.site \in {"config.RackspaceMK8SAuthURL", "config value empty"}
            -> "ConfigurationError"
      [] e.site \in {"client.Do", "ioutil.ReadAll"} -> "TransportError"
      [] e.site = "StatusCode>=500" -> "UpstreamUnavailable"
      [] e.site = "json.Unmarshal" -> "ProtocolError"
      [] e.site = "StatusCode!=200" -> "Unauthenticated"
      [] OTHER -> "StorageError"

\* C1: the user table never holds two users with one federation key, and when
\* a call has returned a user for a response that is an authenticated success
\* with UID u, the table holds exactly one user with federation key u.
C1_OneUserPerUID ==
    /\ \A r1, r2 \in users : r1.Realname = r2.Realname => r1 = r2
    /\ \A c \in Calls :
          Succeeded(call[c]) /\ Got(call[c], Authentic)
              => Cardinality(WithKey(call[c].authResp.UID)) = 1

\* C1 witness: a second call has returned a user for an identity a call
\* before it returned already, and a user of the other identity is being
\* asked for at the same time.
C1_Witness ==
    \E c, d \in Calls :
       /\ c # d
       /\ Succeeded(call[c]) /\ Got(call[c], Authentic)
       /\ \E h \in history : h.UID = call[c].authResp.UID
       /\ Cardinality(WithKey(call[c].authResp.UID)) = 1
       /\ call[d].pc \in {"exists", "get", "register", "returned"}

\* C2: a call reads or writes the user table, or returns a user, only for a
\* response with status 200 and authenticated true; for any other response it
\* returns an error and makes no dao call.
C2_StoreOnlyWhenAuthenticated ==
    \A c \in Calls :
       LET f == call[c]
       IN  /\ (Did(f, StoreReads \cup StoreWrites) \/ f.retUser # {})
                  => Got(f, Authentic)
           /\ (Returned(f) /\ f.resp # {} /\ ~Got(f, Authentic))
                  => f.err # {} /\ f.retUser = {}

\* The call of frame f found the user stored with the display name the
\* service reports, so took neither the update nor the create branch.
FoundUnchanged(f) ==
    /\ Succeeded(f)
    /\ Did(f, {"dao.GetUser"})
    /\ ~Did(f, {"dao.ChangeUserProfile"})

C4_DriftIsPersisted ==
    [][\A c \in Calls :
          (call[c].pc = "update" /\ Succeeded(call'[c])) =>
             /\ Cardinality(users') = Cardinality(users)
             /\ \A old \in WithKey(call[c].authResp.UID) :
                   \E new \in users' :
                      /\ new.Realname = old.Realname
                      /\ new.UserID = old.UserID
                      /\ new.Username = call[c].authResp.Username]_vars

\* The two calls looked the same identity up, both found no user, and both
\* have called dao.Register and returned.
Raced(f, g) ==
    /\ Returned(f) /\ Returned(g)
    /\ Did(f, {"dao.Register"}) /\ Did(g, {"dao.Register"})
    /\ f.authResp.UID = g.authResp.UID

\* C5: of two calls that both found no user for the same identity and both
\* went on to create one, at most one returns a user; the other returns the
\* error of dao.Register, and the table holds at most one user for the identity.
C5_CreateRaceHasOneWinner ==
    \A c, d \in Calls :
       (c # d /\ Raced(call[c], call[d])) =>
          /\ ~(Succeeded(call[c]) /\ Succeeded(call[d]))
          /\ Cardinality(WithKey(call[c].authResp.UID)) <= 1
          /\ Succeeded(call[c]) =>
                /\ call[d].retUser = {}
                /\ \E e \in call[d].err :
                      /\ e.site = "dao.Register"
                      /\ ErrorKind(e) = "StorageError"
                      /\ e.text \in {"duplicate key", "failure"}

\* C5 witness: two calls with the token of u1 raced; one returned the user
\* created and the other the duplicate-key error.
C5_Witness ==
    \E c, d \in Calls :
       /\ c # d /\ Raced(call[c], call[d])
       /\ call[c].authResp.UID = "u1"
       /\ Succeeded(call[c])
       /\ FailedWith(call[d], Err("dao.Register", 0, "duplicate key"))

\* The expressions Authenticate formats into its log lines.
LoggedExpressions ==
    {"m.Principal", "authServerURLTokenEndpoint", "common.RackspaceMK8SAuthURL",
     "authRespBody", "Status.Authenticated", "Status.Error", "User.UID",
     "User.Username", "err"}

Malformed(r) == ~r.body.valid

MalformedBelow500(r) == ~r.body.valid /\ r.status < 500

ProtocolFailure(f) ==
    /\ f.retUser = {}
    /\ \E e \in f.err : e.site = "json.Unmarshal" /\ ErrorKind(e) = "ProtocolError"
    /\ ~Did(f, StoreReads \cup StoreWrites)

\* C8 as stated: a call that got a response whose body is not JSON of the
\* wire schema returns the error of json.Unmarshal and makes no dao call.
C8_MalformedIsProtocolError ==
    \A c \in Calls :
       (Returned(call[c]) /\ Got(call[c], Malformed)) => ProtocolFailure(call[c])

\* C8 as amended: a call that got a response of status below 500 whose body
\* is not JSON of the wire schema returns the error of json.Unmarshal and
\* makes no dao call.
C8_MalformedBelow500IsProtocolError ==
    \A c \in Calls :
       /\ Got(call[c], MalformedBelow500) => Returned(call[c])
       /\ (Returned(call[c]) /\ Got(call[c], MalformedBelow500))
             => ProtocolFailure(call[c])

\* C8 witness: calls have returned the error of json.Unmarshal for a
\* malformed body at status 200 and at status 404.
C8_Witness ==
    \E c, d \in Calls :
       /\ \E r \in call[c].resp : r.kind = "ok" /\ r.status = 200 /\ ~r.body.valid
       /\ \E r \in call[d].resp : r.kind = "ok" /\ r.status = 404 /\ ~r.body.valid
       /\ ProtocolFailure(call[c]) /\ ProtocolFailure(call[d])

\* The response is well formed and is a rejection: authenticated false at
\* status 200, or a status other than 200 below 500.
Rejection(r) ==
    /\ r.body.valid
    /\ \/ r.status = 200 /\ ~Unmarshal(r.body).authResp.Authenticated
       \/ r.status # 200 /\ r.status < 500

\* C9: a call that got a well-formed rejection returns the error made of the
\* status and the error message of the response, and creates no user.
C9_RejectionIsUnauthenticated ==
    \A c \in Calls :
       LET f == call[c]
       IN  \A r \in f.resp :
              (r.kind = "ok" /\ Rejection(r)) =>
                 /\ ~Did(f, StoreWrites)
                 /\ Returned(f)
                 /\ f.retUser = {}
                 /\ \E e \in f.err :
                       /\ ErrorKind(e) = "Unauthenticated"
                       /\ e.code = r.status
                       /\ e.text = Member(r.body.doc, "error")

ServerFailure(r) == r.status >= 500

\* C10: a call that got a response of status 500 or more returns the error
\* made of the status code and the raw body, whether or not the body is
\* JSON: the body is not parsed and no dao call is made.
C10_ServerErrorBeforeParse ==
    \A c \in Calls :
       LET f == call[c]
       IN  \A r \in f.resp :
              (r.kind = "ok" /\ ServerFailure(r)) =>
                 /\ FailedWith(f, Err("StatusCode>=500", r.status, r.body.raw))
                 /\ \A e \in f.err : ErrorKind(e) = "UpstreamUnavailable"
                 /\ f.authResp = ZeroAuthResponse
                 /\ ~Did(f, StoreReads \cup StoreWrites)

\* C10 witness: a call has returned the server error for status 500 with a
\* malformed body, another for status 503 with a well-formed one.
C10_Witness ==
    \E c, d \in Calls :
       /\ FailedWith(call[c], Err("StatusCode>=500", 500, GarbageBody.raw))
       /\ \E r \in call[c].resp : ~r.body.valid
       /\ FailedWith(call[d], Err("StatusCode>=500", 503, RejectBody.raw))
       /\ \E r \in call[d].resp : r.body.valid

\* What the caller and the other parties see of a finished call: the user or
\* error returned, the request sent, the dao calls made, and the user table,
\* next identifier and cached endpoint left behind.
Visible(o) ==
    [retUser |-> o.f.retUser, err |-> o.f.err, req |-> o.f.req, trace |-> o.f.trace,
     users |-> o.users, nextID |-> o.nextID, endpoint |-> o.endpoint]

\* C7: two calls that differ in the principal alone, made from the same
\* store and cached endpoint and given the same answers, return the same user
\* or error, send the same request, whose body holds the token and nothing
\* else, and leave the same user table.
C7_PrincipalHasNoInfluence ==
    twin.pc = "done" =>
       \A o \in twin.out, oo \in twin.outOther :
          /\ Visible(o) = Visible(oo)
          /\ \A req \in o.f.req \cup oo.f.req :
                /\ DOMAIN req.body.spec = {"token"}
                /\ req.body.spec.token = twin.m.Password

\* C7 witness: the call made as "mallory" and as "alice" has created a user,
\* so left a table other than the one it started from.
C7_Witness ==
    /\ twin.pc = "done"
    /\ twin.m.Principal = "mallory" /\ twin.other = "alice"
    /\ \E o \in twin.out : Succeeded(o.f) /\ o.users # twin.sh.users
    /\ \E oo \in twin.outOther : Succeeded(oo.f) /\ oo.f.m.Principal = "alice"

\* C11: every user a call hands to dao.Register or dao.ChangeUserProfile has
\* a non-empty email, whatever display name the service reports.
C11_EmailNeverEmpty ==
    \A c \in Calls :
       \A g \in call[c].given : g.user.Email # NoEmail

\* The call of frame f found the user stored under another display name,
\* its email made of that name, handed the update to the store and returned
\* the user.
Drifted(f) ==
    /\ Succeeded(f)
    /\ Did(f, {"dao.ChangeUserProfile"})
    /\ \A old \in f.existingUser :
          /\ old.Username # ""
          /\ old.Username # f.authResp.Username
          /\ old.Email = DerivedEmail(old.Username)

\* The user stored in place of old after the call of frame f.
StoredFor(old) == {r \in users : r.UserID = old.UserID /\ r.Realname = old.Realname}

\* C12 as stated: after a login that finds the user of the identity stored
\* as "alice" with the email alice@<domain> while the service reports
\* "alice2", the stored user has the username alice2 and the email
\* alice2@<domain> (so for any two names).
C12_DriftRederivesEmail ==
    \A c \in Calls :
       Drifted(call[c]) =>
          \A old \in call[c].existingUser :
             /\ StoredFor(old) # {}
             /\ \A r \in StoredFor(old) :
                   /\ r.Username = call[c].authResp.Username
                   /\ r.Email = DerivedEmail(call[c].authResp.Username)

\* C12 as amended: after such a login the stored user has the username
\* alice2 and still the email alice@<domain>.
C12_DriftKeepsEmail ==
    \A c \in Calls :
       Drifted(call[c]) =>
          \A old \in call[c].existingUser :
             /\ StoredFor(old) # {}
             /\ \A r \in StoredFor(old) :
                   /\ r.Username = call[c].authResp.Username
                   /\ r.Email = old.Email
                   /\ r.Email # NoEmail

\* C12 witness: u1 was stored as alice with alice@<domain>, the service
\* reported alice2, and the login has returned the user.
C12_Witness ==
    /\ Drifted(call["c1"])
    /\ call["c1"].authResp.UID = "u1"
    /\ call["c1"].authResp.Username = "alice2"
    /\ \E old \in call["c1"].existingUser :
          /\ old.Username = "alice"
          /\ \E r \in StoredFor(old) : r.Username = "alice2"

\* The (identifier, federation key) pairs of the users stored.
StoredKeys(us) == {<<r.UserID, r.Realname>> : r \in us}

\* C13: no step of any call changes the federation key of a stored user or
\* removes a user: every (identifier, federation key) pair stored before a
\* step is stored after it.
C13_KeysOnlyGrow == [][StoredKeys(users) \subseteq StoredKeys(users')]_vars

\* C13 witness: a user is stored, one call has handed an update to the store
\* and returned, and another call has had its create refused.
C13_Witness ==
    \E c, d \in Calls :
       /\ users # {}
       /\ Succeeded(call[c]) /\ Did(call[c], {"dao.ChangeUserProfile"})
       /\ Returned(call[d]) /\ Did(call[d], {"dao.Register"}) /\ call[d].err # {}

\* The last request or dao call the call of frame f has made.
LastEvent(f) == f.trace[Len(f.trace)]

\* The dao calls the call of frame f has made, as many as it made.
StoreCalls(f) == {i \in DOMAIN f.trace : f.trace[i] \in StoreReads \cup StoreWrites}

\* C14: when a dao call (lookup, update or create) has returned an error to
\* a call, the call has returned that error and no user, and the failed dao
\* call is the last one the call has made.
C14_StoreFailureIsReturned ==
    \A c \in Calls :
       LET f == call[c]
       IN  \A x \in f.failed :
              /\ FailedWith(f, Err(x.op, 0, x.cause))
              /\ \A e \in f.err : ErrorKind(e) = "StorageError"
              /\ LastEvent(f) = x.op
              /\ Cardinality(f.failed) = 1
              /\ \A i \in StoreCalls(f) : f.trace[i] = x.op => i = Len(f.trace)

\* C14 witness: one call has returned the error of a failed lookup, another
\* the error of a failed update.
C14_Witness ==
    \E c, d \in Calls :
       /\ FailedWith(call[c], Err("dao.GetUser", 0, "failure"))
       /\ call[c].failed # {}
       /\ FailedWith(call[d], Err("dao.ChangeUserProfile", 0, "failure"))
       /\ call[d].failed # {}

\* The requests the call of frame f has handed to client.Do, as many as it did.
Requests(f) == {i \in DOMAIN f.trace : f.trace[i] = "Dispatched"}

\* client.Do has returned to the call of frame f, and with no response: the
\* request could not be sent or no answer came.
NetworkFailed(f) == Requests(f) # {} /\ f.pc # "receive" /\ f.resp = {}

\* C15: a call whose request met a network failure has returned the error of
\* client.Do and no user, and has made no dao call; and every call makes at
\* most one request.
C15_NetworkFailureIsTransportError ==
    \A c \in Calls :
       LET f == call[c]
       IN  /\ Cardinality(Requests(f)) <= 1
           /\ NetworkFailed(f) =>
                 /\ FailedWith(f, Err("client.Do", 0, ""))
                 /\ \A e \in f.err : ErrorKind(e) = "TransportError"
                 /\ ~Did(f, StoreReads \cup StoreWrites)
                 /\ f.given = {}

\* C15 witness: one call has returned the error of client.Do after its one
\* request, while a user is stored by another call.
C15_Witness ==
    \E c \in Calls :
       /\ NetworkFailed(call[c])
       /\ Returned(call[c])
       /\ Cardinality(Requests(call[c])) = 1
       /\ users # {}

\* The comments that mark a user as not to be edited.
DoNotEdit == {"Rackspace MK8S Auth DON'T EDIT", "Do not edit this user"}

\* C16: the user a call has created and returned has the response UID for
\* its federation key, the display name for its username, the email
\* emailAddress gives the new user, a password that randString() made, the
\* do-not-edit comment, and the identifier under which the store holds it.
C16_NewUserFields ==
    \A c \in Calls :
       LET f == call[c]
       IN  (Succeeded(f) /\ Did(f, {"dao.Register"})) =>
              \A u \in f.retUser :
                 /\ u.Realname = f.authResp.UID
                 /\ u.Username = f.authResp.Username
                 /\ \E rand \in RandStrings :
                       u.Email = emailAddress([u EXCEPT !.Email = NoEmail], rand)
                 /\ u.Password \in RandStrings
                 /\ u.Comment \in DoNotEdit
                 /\ u.UserID # 0
                 /\ \E r \in users : r.UserID = u.UserID /\ r.Realname = u.Realname

\* C17: emailAddress(u) is the email of u when that is not empty; else the
\* username of u, "@" and the fixed domain when the username is not empty;
\* else a string randString() made, "@" and the fixed domain; and it is never
\* the empty string.
C17_EmailAddressRule ==
    applied.pc = "done" =>
       \A out \in applied.out :
          /\ applied.u.Email # NoEmail => out = applied.u.Email
          /\ (applied.u.Email = NoEmail /\ applied.u.Username # "")
                => out = <<applied.u.Username, "@", "fake-rackspace-mk8s.com">>
          /\ (applied.u.Email = NoEmail /\ applied.u.Username = "")
                => /\ out = <<applied.rand, "@", "fake-rackspace-mk8s.com">>
                   /\ applied.rand \in RandStrings
          /\ out # NoEmail
          /\ \A i \in DOMAIN out : out[i] # ""

\* C17 witness: emailAddress has been applied to a user with neither email
\* nor username, and gave an address made of a random string.
C17_Witness ==
    /\ applied.pc = "done"
    /\ applied.u.Email = NoEmail /\ applied.u.Username = ""
    /\ applied.out = {DerivedEmail(applied.rand)}

\* The certificates the CA bundle adds when it exists and is not empty.
BundleCerts(ca) == IF ca.exists /\ ca.size # 0 THEN ca.certs ELSE {}

\* C18 as stated: once init() has run, the client is the default client
\* with no transport of its own when the URL is not https, and when it is
\* https the client trusts the system roots and, exactly when the bundle
\* file exists and is not empty, the certificates of the bundle.
C18_ClientTrust ==
    boot.pc = "running" =>
       \A url \in boot.authURL, cl \in boot.client :
          /\ ~HasPrefixHTTPS(url) => cl = DefaultClient /\ cl.transport = "none"
          /\ HasPrefixHTTPS(url) => cl.roots = PlatformRoots \cup BundleCerts(boot.ca)

\* C18 as amended: the same, the bundle's certificates being trusted exactly
\* when the file exists, is not empty, and both it and the system roots are
\* read without error; on either error the client is the default client.
C18_ClientTrustUnlessReadError ==
    boot.pc = "running" =>
       \A url \in boot.authURL, cl \in boot.client :
          /\ ~HasPrefixHTTPS(url) => cl = DefaultClient /\ cl.transport = "none"
          /\ (HasPrefixHTTPS(url) /\ ~boot.readErr /\ ~boot.poolErr)
                => cl.roots = PlatformRoots \cup BundleCerts(boot.ca)
          /\ (HasPrefixHTTPS(url) /\ BundleCerts(boot.ca) # {}
                /\ (boot.readErr \/ boot.poolErr))
                => cl = DefaultClient
          /\ HasPrefixHTTPS(url) => PlatformRoots \subseteq cl.roots
          /\ cl.transport = "custom" => HasPrefixHTTPS(url)

\* C18 witness: the URL is https, the bundle holds a certificate, and the
\* process runs with a client that trusts the system roots and the bundle.
C18_Witness ==
    /\ boot.pc = "running"
    /\ \E url \in boot.authURL : HasPrefixHTTPS(url)
    /\ boot.ca.certs # {}
    /\ \E cl \in boot.client :
          cl.transport = "custom" /\ cl.roots = PlatformRoots \cup boot.ca.certs

\* The text is an absolute URL: a scheme, then "//" and a host.
AbsoluteURL(raw) == raw.scheme # "" /\ raw.first = "/"

C20_SharedConfigurationIsReadOnly ==
    [][authServerURLTokenEndpoint' = authServerURLTokenEndpoint]_vars

\* The writing dao calls the call of frame f has made, as many as it made.
WritingCalls(f) == {i \in DOMAIN f.trace : f.trace[i] \in StoreWrites}

\* The stored user has every field a create sets.
WholeUser(r) ==
    /\ r.UserID > 0
    /\ r.Password # ""
    /\ r.Comment # ""

\* C21: every call makes at most one writing dao call (one dao.Register or
\* one dao.ChangeUserProfile) and hands the store at most one user, and in
\* every state, calls in mid-course included, every stored user is whole.
C21_OneWritePerCall ==
    /\ \A c \in Calls :
          /\ Cardinality(WritingCalls(call[c])) <= 1
          /\ Cardinality(call[c].given) <= 1
    /\ \A r \in users : WholeUser(r)

\* C21 witness: one call has created a user and returned it, and another is
\* in mid-course, about to hand an update to the store.
C21_Witness ==
    \E c, d \in Calls :
       /\ Succeeded(call[c])
       /\ Cardinality(WritingCalls(call[c])) = 1
       /\ call[c].trace[Len(call[c].trace)] = "dao.Register"
       /\ call[d].pc = "update"
       /\ users # {}

\* C22: a call that got a response and has returned has closed the body of
\* that response, whatever it returned; a call that got none has no body to
\* close; and no body is closed before the call returns.
C22_BodyClosedOnReturn ==
    \A c \in Calls :
       LET f == call[c]
       IN  /\ (Returned(f) /\ f.resp # {}) => f.body = "closed"
           /\ f.resp = {} => f.body = "none"
           /\ (f.resp # {} /\ ~Returned(f)) => f.body = "open"

\* C22 witness: one call has returned a storage error and another the error
\* of reading the body, both with the body closed.
C22_Witness ==
    \E c, d \in Calls :
       /\ Returned(call[c]) /\ call[c].body = "closed"
       /\ \E e \in call[c].err : e.site = "dao.Register"
       /\ Returned(call[d]) /\ call[d].body = "closed"
       /\ \E e \in call[d].err : e.site = "ioutil.ReadAll"

\* C23: in every step of a call, the users of other federation keys than
\* the response UID stay as they are; the user the call fetched, hands to
\* the store or returns has the response UID for its federation key,
\* whatever its display name; and no federation key gets a second user.
C23_MatchedByUIDOnly ==
    [][\A c \in Calls :
          call'[c] # call[c] =>
             LET g == call'[c]
                 uid == g.authResp.UID
             IN  /\ \A r \in users : r.Realname # uid => r \in users'
                 /\ \A u \in g.retUser \cup g.existingUser : u.Realname = uid
                 /\ \A x \in g.given : x.user.Realname = uid
                 /\ \A k \in UIDs :
                       Cardinality({r \in users' : r.Realname = k}) <= 1]_vars

\* C23 witness: u1 is stored as "alice"; a call was answered with the unseen
\* u2 under the display name "alice", found no user, went to create one and
\* has returned, and the user of u1 is as it was.
C23_Witness ==
    \E c \in Calls :
       /\ Returned(call[c])
       /\ Got(call[c], Authentic)
       /\ call[c].authResp.UID = "u2" /\ call[c].authResp.Username = "alice"
       /\ ~call[c].exist /\ Did(call[c], {"dao.Register"})
       /\ \E r \in users : r.Realname = "u1" /\ r.Username = "alice"
       /\ \A r \in users : r.Username = "alice" => r.Realname = "u1"

\* The positions in the trace of frame f of the events in es.
Positions(f, es) == {i \in DOMAIN f.trace : f.trace[i] \in es}

\* C24: a call is Received first, Dispatched at most once and after that,
\* and makes its dao calls only after the request was sent and only for a
\* response that is an authenticated success (the Resolved path); a call
\* that has returned has returned either a user or an error, not both nor
\* neither, and a user only on the Resolved path.
C24_CallOrder ==
    \A c \in Calls :
       LET f == call[c]
           store == Positions(f, StoreReads \cup StoreWrites)
       IN  /\ f.trace # <<>> => f.trace[1] = "Received"
           /\ Positions(f, {"Received"}) \subseteq {1}
           /\ Positions(f, {"Dispatched"}) \subseteq {2}
           /\ \A i \in store : i > 2 /\ f.trace[2] = "Dispatched"
           /\ store # {} => Got(f, Authentic)
           /\ Returned(f) => (f.retUser = {}) # (f.err = {})
           /\ f.retUser # {} => Got(f, Authentic) /\ store # {}

\* C25: no call begins before init() has run; once it has, the authenticator
\* is registered once, under "rackspace_mk8s_auth", and the endpoint of the
\* verification service is resolved.
C25_RegisteredAndConfigured ==
    /\ started > 0 => boot.pc = "running"
    /\ boot.pc = "running" =>
          /\ boot.registry = <<"rackspace_mk8s_auth">>
          /\ authServerURLTokenEndpoint # NoEndpoint

\* What the caller may compare of a user with the stored one.
Profile(u) ==
    [UserID |-> u.UserID, Realname |-> u.Realname, Username |-> u.Username,
     Email |-> u.Email]

\* C26: in the step in which a call returns a user, that user has the
\* identifier, federation key, username and email of a user the store
\* holds, the one stored for the response UID; so after an update the
\* username returned is the one stored.
C26_ReturnedIsStored ==
    [][\A c \in Calls :
          (~Returned(call[c]) /\ Succeeded(call'[c])) =>
             \A u \in call'[c].retUser :
                /\ u.Realname = call'[c].authResp.UID
                /\ \E r \in users' : Profile(r) = Profile(u)]_vars

\* C27: no stored user and no user returned has the empty federation key,
\* and no call asks the store for, or hands it, a user keyed by the empty
\* string.
C27_KeyNeverEmpty ==
    /\ \A r \in users : r.Realname # ""
    /\ \A c \in Calls :
          LET f == call[c]
          IN  /\ \A u \in f.retUser : u.Realname # ""
              /\ \A x \in f.given : x.user.Realname # ""
              /\ Did(f, StoreReads \cup StoreWrites) => f.user.Realname # ""

\* The two calls were answered for the same identity, stored before either
\* looked it up, under two different display names, and both have returned
\* a user.
DriftRace(f, g) ==
    /\ Succeeded(f) /\ Succeeded(g)
    /\ Got(f, Authentic) /\ Got(g, Authentic)
    /\ f.authResp.UID = g.authResp.UID
    /\ f.authResp.Username # g.authResp.Username
    /\ f.exist /\ g.exist

\* C28: when two calls for one stored identity were answered with different
\* display names and both have returned, the store holds exactly one user
\* for the identity, under the identifier both calls found, and its username
\* is one of the two names.
C28_DriftRaceEndsConsistent ==
    \A c, d \in Calls :
       (c # d /\ DriftRace(call[c], call[d])) =>
          /\ Cardinality(WithKey(call[c].authResp.UID)) = 1
          /\ \A r \in WithKey(call[c].authResp.UID) :
                /\ \A e \in call[c].existingUser \cup call[d].existingUser :
                      e.UserID = r.UserID
                /\ r.Username \in {call[c].authResp.Username,
                                   call[d].authResp.Username}

\* The call's attempt to resolve the endpoint failed: the configuration could
\* not be read, or its value was empty.
Unresolved(f) ==
    /\ Returned(f)
    /\ \E e \in f.err : e.site \in {"config.RackspaceMK8SAuthURL", "config value empty"}

\* C29: a call that finds the configured URL unreadable or empty returns an
\* error, having sent no request and made no dao call, and the step that
\* fails so changes neither the store nor the cached endpoint; a call that
\* begins while the endpoint is unset resolves it; and no step changes an
\* endpoint that is already resolved.
C29_EndpointCache ==
    [][/\ \A c \in Calls :
             /\ Unresolved(call[c]') =>
                   /\ call[c]'.retUser = {}
                   /\ call[c]'.req = {}
                   /\ Positions(call[c]', {"Dispatched"} \cup StoreReads \cup StoreWrites) = {}
                   /\ call[c].pc = "resolve" =>
                         /\ users' = users
                         /\ authServerURLTokenEndpoint' = authServerURLTokenEndpoint
             /\ (call[c].pc = "idle" /\ call[c]'.pc # "idle"
                    /\ authServerURLTokenEndpoint = NoEndpoint) =>
                   call[c]'.pc = "resolve"
       /\ authServerURLTokenEndpoint # NoEndpoint =>
             authServerURLTokenEndpoint' = authServerURLTokenEndpoint]_vars

====
